---------------------------- MODULE Spec2Model ----------------------------
(***************************************************************************)
(* Model of services/backend/app/src/database/service.py:                  *)
(* the DatabaseService singleton, its schema-context session manager       *)
(* (async_session) and the database provisioner (create_db).               *)
(*                                                                         *)
(* Requests are asyncio tasks of one process.  Code between two awaits is  *)
(* one step.  create_db is synchronous: while it runs no task of the       *)
(* process is scheduled, so its steps (kept apart to observe their order)  *)
(* exclude every request step.  The database server is shared with other   *)
(* processes, which may drop the database at any moment at which no        *)
(* connection of this process is checked out.                              *)
(***************************************************************************)
EXTENDS Integers, Sequences, FiniteSets, TLC

\* Bound of the model: the number of tasks that may be inside async_session
\* at the same time.
NumRequests == 1

Requests == 1..NumRequests

\* Row identifiers the units of work save and delete.
Items == {"book"}

\* Values of src.config used by the service.
SHARED_SCHEMA_NAME == "shared"
TENANT_SCHEMA_NAME == "tenant"

\* Schema names handed to async_session: the shared sentinel and two tenants.
TenantNames == {"tenant_a", "tenant_b"}
SchemaArgs == {SHARED_SCHEMA_NAME} \cup TenantNames

None == "None"

\* Who is running create_db: nobody, a direct call of the classmethod, a direct
\* call of get(), or the async_session invocation r (through get()).
NoCaller == [kind |-> "none", req |-> 0]
DirectCaller == [kind |-> "create_db", req |-> 0]
GetCaller == [kind |-> "get", req |-> 0]
RequestCaller(r) == [kind |-> "async_session", req |-> r]

\* Failures raised inside the unit of work by caller logic.
UowErrors == {"E_uow"}

VARIABLES
    IN_MAINTENANCE, \* process-wide maintenance flag
    dbExists,       \* database_exists(DATABASE_URL_SYNC)
    schemas,        \* schemas present in the database
    migrated,       \* alembic upgrade head has been applied
    data,           \* committed rows, per schema name
    instance,       \* DatabaseService._instance is not None
    cdb_pc,         \* position inside create_db
    cdb_caller,     \* who runs create_db
    cdb_log,        \* side effects issued by the current / last create_db
    cdb_result,     \* outcome of the last create_db
    cdb_errors,     \* schemas the current / last create_db logged as not created
    init_calls,     \* how often __init__ has called create_db
    adm,            \* the current / last run of create_schema or clone_db_schema
    sd,             \* the current / last run of shutdown
    tables,         \* the tables of each schema
    rows,           \* the tables of each schema that hold rows
    pc,             \* position of each async_session invocation
    schema_name,    \* its schema_name argument
    session,        \* state of the session it created
    ctx,            \* execution options bound to the session's connection
    writes,         \* uncommitted writes made by its unit of work
    exc,            \* chain of failures raised so far, newest last
    result,         \* what the caller of async_session observed
    log             \* calls issued on the session, in order

envVars == <<dbExists, schemas, migrated, data>>
cdbVars == <<cdb_pc, cdb_caller, cdb_log, cdb_result, cdb_errors, init_calls>>
adminVars == <<adm, sd, tables, rows>>
reqVars == <<pc, schema_name, session, ctx, writes, exc, result, log>>
vars == <<IN_MAINTENANCE, dbExists, schemas, migrated, data, instance,
          cdb_pc, cdb_caller, cdb_log, cdb_result, cdb_errors, init_calls,
          adm, sd, tables, rows,
          pc, schema_name, session, ctx, writes, exc, result, log>>

NoWrites == [add |-> {}, del |-> {}]
EmptyData == [s \in SchemaArgs |-> {}]

\* Table names of the tenant template.
TableNames == {"book", "critic"}

\* Schema names handed to create_schema and clone_db_schema.
AdminSchemas == {SHARED_SCHEMA_NAME, TENANT_SCHEMA_NAME, "tenant_a"}

NoTables == [s \in AdminSchemas |-> {}]

\* No administrative routine has run.
AdmIdle ==
    [pc |-> "idle", op |-> "none", source |-> None, target |-> None,
     before |-> {}, todo |-> {}, created |-> {}, stmts |-> 0,
     error_logged |-> FALSE, engine |-> "none", result |-> "none",
     repeat |-> FALSE, prev_created |-> {}, undone |-> {}]

\* shutdown has not been called.
SdIdle == [pc |-> "idle", log |-> <<>>, result |-> "none", closed |-> {}]

\* The requests of a process that serves none.
NoRequests ==
    /\ pc = [r \in Requests |-> "idle"]
    /\ schema_name = [r \in Requests |-> None]
    /\ session = [r \in Requests |-> "none"]
    /\ ctx = [r \in Requests |-> {}]
    /\ writes = [r \in Requests |-> NoWrites]
    /\ exc = [r \in Requests |-> <<>>]
    /\ result = [r \in Requests |-> "none"]
    /\ log = [r \in Requests |-> <<>>]

Init ==
    /\ IN_MAINTENANCE \in BOOLEAN
    /\ dbExists = FALSE
    /\ schemas = {}
    /\ migrated = FALSE
    /\ data = EmptyData
    /\ instance = FALSE
    /\ cdb_pc = "idle"
    /\ cdb_caller = NoCaller
    /\ cdb_log = <<>>
    /\ cdb_result = "none"
    /\ cdb_errors = {}
    /\ init_calls = "never"
    /\ adm = AdmIdle
    /\ sd = SdIdle
    /\ tables = NoTables
    /\ rows = NoTables
    /\ NoRequests

-----------------------------------------------------------------------------
(* create_db and what it calls *)

database_exists == dbExists

CreateDbNeeded_always == TRUE

\* Line 101: the creation branch is taken only when the probe finds no database.
CreateDbNeeded == ~database_exists

CreateDbNextPc_migrate_first(step) ==
    CASE step = "create_database" -> "migrate"
      [] step = "migrate" -> "schema_shared"
      [] step = "schema_shared" -> "schema_tenant"
      [] step = "schema_tenant" -> "recheck"

\* Lines 103-112: the statement that follows each statement of the creation branch.
CreateDbNextPc(step) ==
    CASE step = "create_database" -> "schema_shared"
      [] step = "schema_shared" -> "schema_tenant"
      [] step = "schema_tenant" -> "migrate"
      [] step = "migrate" -> "recheck"

\* The session maker is called right after get() returns (line 87).
SessionCreated(r) ==
    /\ session' = [session EXCEPT ![r] = "created"]
    /\ pc' = [pc EXCEPT ![r] = "connect"]

\* create_db hands control back to its caller, normally (ok) or by raising.
\* __init__ (lines 40-53) builds the engine and the session maker only when
\* create_db returned; get() (lines 35-38) stores the instance only then.
CreateDbReturns(ok) ==
    /\ cdb_pc' = "idle"
    /\ cdb_caller' = NoCaller
    /\ cdb_result' = IF ok THEN "ok" ELSE "raised"
    /\ UNCHANGED init_calls
    /\ instance' = (instance \/ (ok /\ cdb_caller.kind \in {"get", "async_session"}))
    /\ IF cdb_caller.kind = "async_session"
       THEN IF ok
            THEN /\ SessionCreated(cdb_caller.req)
                 /\ UNCHANGED <<exc, result>>
            ELSE /\ pc' = [pc EXCEPT ![cdb_caller.req] = "done"]
                 /\ exc' = [exc EXCEPT ![cdb_caller.req] = <<"E_create_db">>]
                 /\ result' = [result EXCEPT ![cdb_caller.req] = "E_create_db"]
                 /\ UNCHANGED session
       ELSE UNCHANGED <<pc, session, exc, result>>
    /\ UNCHANGED <<IN_MAINTENANCE, adminVars, schema_name, ctx, writes, log>>

\* create_db is entered by caller c (line 100): nothing has been done yet.
CreateDbEnter(c) ==
    /\ cdb_pc' = "probe"
    /\ cdb_caller' = c
    /\ cdb_log' = <<>>
    /\ cdb_result' = "none"
    /\ cdb_errors' = {}
    /\ init_calls' = IF c.kind = "create_db" THEN init_calls
                     ELSE IF init_calls = "never" THEN "once" ELSE "twice_or_more"

\* A direct call of the classmethod create_db.
CallCreateDb ==
    /\ cdb_pc = "idle"
    /\ CreateDbEnter(DirectCaller)
    /\ UNCHANGED <<IN_MAINTENANCE, adminVars, envVars, instance, reqVars>>

\* Line 101 (and 117): the first existence probe.
CreateDbProbe ==
    /\ cdb_pc = "probe"
    /\ IF CreateDbNeeded
       THEN /\ cdb_pc' = "create_database"
            /\ UNCHANGED <<IN_MAINTENANCE, adminVars, envVars, instance, cdb_caller,
                           cdb_log, cdb_result, cdb_errors, init_calls, reqVars>>
       ELSE /\ CreateDbReturns(TRUE)
            /\ UNCHANGED <<envVars, cdb_log, cdb_errors>>

\* Line 103: create_database either creates the (empty) database or raises;
\* it raises when the database is already there.
CreateDatabase ==
    /\ cdb_pc = "create_database"
    /\ cdb_log' = Append(cdb_log, "create_database")
    /\ \E ok \in BOOLEAN :
          IF ok /\ ~dbExists
          THEN /\ dbExists' = TRUE
               /\ schemas' = {}
               /\ migrated' = FALSE
               /\ data' = EmptyData
               /\ tables' = NoTables
               /\ rows' = NoTables
               /\ cdb_pc' = CreateDbNextPc("create_database")
               /\ UNCHANGED <<IN_MAINTENANCE, adm, sd, instance, cdb_caller, cdb_result,
                              init_calls, reqVars>>
          ELSE /\ CreateDbReturns(FALSE)
               /\ UNCHANGED envVars
    /\ UNCHANGED cdb_errors

\* Lines 131-141: create_schema(name).  "created": the schema was absent and
\* the create statement took effect; "exists": it was there already;
\* "no_effect": the statement ran and the schema is still absent (line 137,
\* logged, not raised); "raised": connecting or the statement raised.
CreateSchemaOutcomes(name) ==
    IF ~dbExists THEN {"raised"}
    ELSE IF name \in schemas THEN {"exists", "raised"}
    ELSE {"created", "no_effect", "raised"}

create_schema(name, outcome) ==
    /\ outcome \in CreateSchemaOutcomes(name)
    /\ schemas' = IF outcome = "created" THEN schemas \cup {name} ELSE schemas

\* Lines 136-137: the error is logged when the schema is absent after the
\* create statement; nothing is raised there.
ErrorLogged(outcome) == outcome = "no_effect"

CreateSchemaRaises_on_no_effect(outcome) == outcome \in {"raised", "no_effect"}

\* create_schema raises only when connecting, the existence check or the
\* create statement raises.
CreateSchemaRaises(outcome) == outcome = "raised"

\* Lines 105-106: the two create_schema calls of create_db.
CreateDbSchema(step, name) ==
    /\ cdb_pc = step
    /\ cdb_log' = Append(cdb_log, step)
    /\ \E outcome \in CreateSchemaOutcomes(name) :
          /\ create_schema(name, outcome)
          /\ cdb_errors' = IF ErrorLogged(outcome) THEN cdb_errors \cup {name} ELSE cdb_errors
          /\ IF CreateSchemaRaises(outcome)
             THEN CreateDbReturns(FALSE)
             ELSE /\ cdb_pc' = CreateDbNextPc(step)
                  /\ UNCHANGED <<IN_MAINTENANCE, adminVars, instance, cdb_caller, cdb_result,
                                 init_calls, reqVars>>
    /\ UNCHANGED <<dbExists, migrated, data>>

CreateSharedSchema == CreateDbSchema("schema_shared", SHARED_SCHEMA_NAME)

CreateTenantSchema == CreateDbSchema("schema_tenant", TENANT_SCHEMA_NAME)

\* Lines 109, 173-174: os.system('alembic upgrade head') never raises; the
\* migration either is applied or is not.
RunMigrations ==
    /\ cdb_pc = "migrate"
    /\ cdb_log' = Append(cdb_log, "run_migrations")
    /\ \E applied \in BOOLEAN : migrated' = (migrated \/ (applied /\ dbExists))
    /\ cdb_pc' = CreateDbNextPc("migrate")
    /\ UNCHANGED <<IN_MAINTENANCE, adminVars, dbExists, schemas, data, instance, cdb_caller,
                   cdb_result, cdb_errors, init_calls, reqVars>>

CreateDbVerified_always == TRUE

\* Line 112: create_db raises unless the database exists after the migrations.
CreateDbVerified == database_exists

\* Lines 112-115: the second existence probe.
CreateDbRecheck ==
    /\ cdb_pc = "recheck"
    /\ CreateDbReturns(CreateDbVerified)
    /\ UNCHANGED <<envVars, cdb_log, cdb_errors>>

\* Lines 176-180: drop_db, run by this or another process while no connection
\* of this process is checked out.
DropDb ==
    /\ database_exists
    /\ \A r \in Requests : session[r] # "connected"
    /\ dbExists' = FALSE
    /\ schemas' = {}
    /\ migrated' = FALSE
    /\ data' = EmptyData
    /\ tables' = NoTables
    /\ rows' = NoTables
    /\ UNCHANGED <<IN_MAINTENANCE, adm, sd, instance, cdbVars, reqVars>>

\* Line 36: get() constructs the service only while _instance is None.
HasInstance == instance

\* Lines 33-38: a direct call of get().
Get ==
    /\ cdb_pc = "idle"
    /\ ~HasInstance
    /\ CreateDbEnter(GetCaller)
    /\ UNCHANGED <<IN_MAINTENANCE, adminVars, envVars, instance, reqVars>>

-----------------------------------------------------------------------------
(* get_schema_context and async_session *)

get_schema_context_swapped(name) ==
    IF name = SHARED_SCHEMA_NAME
    THEN {<<"tenant", name>>, <<"shared", None>>}
    ELSE {<<"tenant", None>>}

\* Lines 55-62: the schema_translate_map, as the set of its (alias, schema) items.
get_schema_context(name) ==
    IF name = SHARED_SCHEMA_NAME
    THEN {<<"tenant", None>>}
    ELSE {<<"tenant", name>>, <<"shared", None>>}

MaintenanceRejects_never == FALSE

\* Line 79: the maintenance check.
MaintenanceRejects == IN_MAINTENANCE

BoundContext_engine_wide(c, r, name) == [q \in DOMAIN c |-> get_schema_context(name)]

\* Line 88: the execution options are those of the connection of session r;
\* no other session's options change.
BoundContext(c, r, name) == [c EXCEPT ![r] = get_schema_context(name)]

\* The schema in which the statements of session r on the tenant tables run:
\* the one its context translates 'tenant' to, the default schema for None.
SchemaOf(r) ==
    LET e == CHOOSE e \in ctx[r] : e[1] = "tenant"
    IN  IF e[2] = None THEN SHARED_SCHEMA_NAME ELSE e[2]

\* What the unit of work's session shows: committed rows and its own writes.
View(r) == (data[SchemaOf(r)] \ writes[r].del) \cup writes[r].add

\* Lines 79-87: async_session(schema_name = s) up to its first await.
AsyncSessionEnter(r, s) ==
    /\ cdb_pc = "idle"
    /\ pc[r] = "idle"
    /\ schema_name' = [schema_name EXCEPT ![r] = s]
    /\ IF MaintenanceRejects
       THEN /\ pc' = [pc EXCEPT ![r] = "done"]
            /\ exc' = [exc EXCEPT ![r] = <<"HTTP_503">>]
            /\ result' = [result EXCEPT ![r] = "HTTP_503"]
            /\ UNCHANGED <<instance, cdbVars, session>>
       ELSE IF HasInstance
            THEN /\ SessionCreated(r)
                 /\ UNCHANGED <<instance, cdbVars, exc, result>>
            ELSE /\ CreateDbEnter(RequestCaller(r))
                 /\ pc' = [pc EXCEPT ![r] = "init"]
                 /\ UNCHANGED <<instance, session, exc, result>>
    /\ UNCHANGED <<IN_MAINTENANCE, adminVars, envVars, ctx, writes, log>>

\* Line 88: session.connection(execution_options=get_schema_context(s)) checks
\* a connection out, begins the transaction and binds the schema context, or
\* raises; it raises when there is no database.  It runs before the try block.
Connection(r) ==
    /\ cdb_pc = "idle"
    /\ pc[r] = "connect"
    /\ log' = [log EXCEPT ![r] = Append(@, "connection")]
    /\ \E ok \in BOOLEAN :
          IF ok /\ dbExists
          THEN /\ session' = [session EXCEPT ![r] = "connected"]
               /\ ctx' = BoundContext(ctx, r, schema_name[r])
               /\ pc' = [pc EXCEPT ![r] = "uow"]
               /\ UNCHANGED <<exc, result>>
          ELSE /\ pc' = [pc EXCEPT ![r] = "done"]
               /\ exc' = [exc EXCEPT ![r] = <<"E_connection">>]
               /\ result' = [result EXCEPT ![r] = "E_connection"]
               /\ UNCHANGED <<session, ctx>>
    /\ UNCHANGED <<IN_MAINTENANCE, adminVars, envVars, instance, cdbVars, schema_name, writes>>

\* Line 91: the unit of work saves item i through the yielded session.
UowSave(r, i) ==
    /\ cdb_pc = "idle"
    /\ pc[r] = "uow"
    /\ i \notin View(r)
    /\ writes' = [writes EXCEPT ![r] = [add |-> @.add \cup {i}, del |-> @.del \ {i}]]
    /\ UNCHANGED <<IN_MAINTENANCE, adminVars, envVars, instance, cdbVars,
                   pc, schema_name, session, ctx, exc, result, log>>

\* Line 91: the unit of work deletes item i through the yielded session.
UowDelete(r, i) ==
    /\ cdb_pc = "idle"
    /\ pc[r] = "uow"
    /\ i \in View(r)
    /\ writes' = [writes EXCEPT ![r] = [add |-> @.add \ {i}, del |-> @.del \cup {i}]]
    /\ UNCHANGED <<IN_MAINTENANCE, adminVars, envVars, instance, cdbVars,
                   pc, schema_name, session, ctx, exc, result, log>>

AfterUow_skips_commit(raised) == IF raised THEN "rollback" ELSE "close"

\* Lines 90-93: after the yield, commit when the unit of work returned and
\* the except clause when it raised.
AfterUow(raised) == IF raised THEN "rollback" ELSE "commit"

\* Lines 91-92: the unit of work returns normally.
UowReturn(r) ==
    /\ cdb_pc = "idle"
    /\ pc[r] = "uow"
    /\ pc' = [pc EXCEPT ![r] = AfterUow(FALSE)]
    /\ log' = [log EXCEPT ![r] = Append(@, "uow_returned")]
    /\ UNCHANGED <<IN_MAINTENANCE, adminVars, envVars, instance, cdbVars,
                   schema_name, session, ctx, writes, exc, result>>

\* Lines 91, 93: the unit of work raises e.
UowRaise(r, e) ==
    /\ cdb_pc = "idle"
    /\ pc[r] = "uow"
    /\ pc' = [pc EXCEPT ![r] = AfterUow(TRUE)]
    /\ exc' = [exc EXCEPT ![r] = <<e>>]
    /\ log' = [log EXCEPT ![r] = Append(@, "uow_raised")]
    /\ UNCHANGED <<IN_MAINTENANCE, adminVars, envVars, instance, cdbVars,
                   schema_name, session, ctx, writes, result>>

CommittedData_nothing(r) == data

\* The rows of the database once the transaction of r is committed.
CommittedData(r) == [data EXCEPT ![SchemaOf(r)] = View(r)]

AfterCommit_close(ok) == "close"

\* Lines 92-96: after commit, the finally clause; after a commit that raised,
\* the except clause.
AfterCommit(ok) == IF ok THEN "close" ELSE "rollback"

\* Line 92: session.commit() makes the writes durable, or raises.
Commit(r) ==
    /\ cdb_pc = "idle"
    /\ pc[r] = "commit"
    /\ log' = [log EXCEPT ![r] = Append(@, "commit")]
    /\ \E ok \in BOOLEAN :
          /\ pc' = [pc EXCEPT ![r] = AfterCommit(ok)]
          /\ IF ok
             THEN /\ data' = CommittedData(r)
                  /\ session' = [session EXCEPT ![r] = "committed"]
                  /\ UNCHANGED exc
             ELSE /\ exc' = [exc EXCEPT ![r] = <<"E_commit">>]
                  /\ UNCHANGED <<data, session>>
    /\ UNCHANGED <<IN_MAINTENANCE, adminVars, dbExists, schemas, migrated, instance, cdbVars,
                   schema_name, ctx, writes, result>>

RolledBackData_commits(r) == CommittedData(r)

\* The rows of the database once the transaction of r is rolled back.
RolledBackData(r) == data

\* Lines 94-95: the bare raise re-raises the failure being handled; a
\* rollback that raises replaces it (the handled failure is its context).
RaisedAfterRollback(chain, ok) == IF ok THEN chain ELSE Append(chain, "E_rollback")

\* Lines 93-95: session.rollback() discards the writes, or raises.
Rollback(r) ==
    /\ cdb_pc = "idle"
    /\ pc[r] = "rollback"
    /\ log' = [log EXCEPT ![r] = Append(@, "rollback")]
    /\ pc' = [pc EXCEPT ![r] = "close"]
    /\ data' = RolledBackData(r)
    /\ \E ok \in BOOLEAN :
          /\ exc' = [exc EXCEPT ![r] = RaisedAfterRollback(@, ok)]
          /\ session' = [session EXCEPT ![r] = IF ok THEN "rolled_back" ELSE @]
    /\ UNCHANGED <<IN_MAINTENANCE, adminVars, dbExists, schemas, migrated, instance, cdbVars,
                   schema_name, ctx, writes, result>>

\* What the caller of async_session observes: the newest failure of the chain.
Propagated(chain) == IF chain = <<>> THEN "ok" ELSE chain[Len(chain)]

\* Lines 96-97: session.close() releases the connection; a transaction still
\* open is abandoned.  Then the invocation ends.
Close(r) ==
    /\ cdb_pc = "idle"
    /\ pc[r] = "close"
    /\ log' = [log EXCEPT ![r] = Append(@, "close")]
    /\ session' = [session EXCEPT ![r] = "closed"]
    /\ pc' = [pc EXCEPT ![r] = "done"]
    /\ result' = [result EXCEPT ![r] = Propagated(exc[r])]
    /\ UNCHANGED <<IN_MAINTENANCE, adminVars, envVars, instance, cdbVars,
                   schema_name, ctx, writes, exc>>

\* The caller has its result; the task is free for the next invocation.
Finished(r) ==
    /\ cdb_pc = "idle"
    /\ pc[r] = "done"
    /\ pc' = [pc EXCEPT ![r] = "idle"]
    /\ schema_name' = [schema_name EXCEPT ![r] = None]
    /\ session' = [session EXCEPT ![r] = "none"]
    /\ ctx' = [ctx EXCEPT ![r] = {}]
    /\ writes' = [writes EXCEPT ![r] = NoWrites]
    /\ exc' = [exc EXCEPT ![r] = <<>>]
    /\ result' = [result EXCEPT ![r] = "none"]
    /\ log' = [log EXCEPT ![r] = <<>>]
    /\ UNCHANGED <<IN_MAINTENANCE, adminVars, envVars, instance, cdbVars>>

-----------------------------------------------------------------------------
Next ==
    \/ CallCreateDb
    \/ Get
    \/ CreateDbProbe
    \/ CreateDatabase
    \/ CreateSharedSchema
    \/ CreateTenantSchema
    \/ RunMigrations
    \/ CreateDbRecheck
    \/ DropDb
    \/ \E r \in Requests, s \in SchemaArgs : AsyncSessionEnter(r, s)
    \/ \E r \in Requests : Connection(r)
    \/ \E r \in Requests, i \in Items : UowSave(r, i)
    \/ \E r \in Requests, i \in Items : UowDelete(r, i)
    \/ \E r \in Requests : UowReturn(r)
    \/ \E r \in Requests, e \in UowErrors : UowRaise(r, e)
    \/ \E r \in Requests : Commit(r)
    \/ \E r \in Requests : Rollback(r)
    \/ \E r \in Requests : Close(r)
    \/ \E r \in Requests : Finished(r)

Spec == Init /\ [][Next]_vars

-----------------------------------------------------------------------------
(* create_schema and clone_db_schema called directly, as administrative
   routines of a process that serves no request meanwhile *)

\* A database in any state the routines can find: the tables of `tables` are
\* those of the schemas that exist, `rows` the tables that hold rows.
InitAdmin ==
    /\ IN_MAINTENANCE = FALSE
    /\ dbExists \in BOOLEAN
    /\ schemas \in SUBSET AdminSchemas
    /\ ~dbExists => schemas = {}
    /\ tables \in [AdminSchemas -> SUBSET TableNames]
    /\ \A s \in AdminSchemas : s \notin schemas => tables[s] = {}
    /\ rows \in [AdminSchemas -> SUBSET TableNames]
    /\ \A s \in AdminSchemas : rows[s] \subseteq tables[s]
    /\ migrated = FALSE
    /\ data = EmptyData
    /\ instance = FALSE
    /\ cdb_pc = "idle"
    /\ cdb_caller = NoCaller
    /\ cdb_log = <<>>
    /\ cdb_result = "none"
    /\ cdb_errors = {}
    /\ init_calls = "never"
    /\ adm = AdmIdle
    /\ sd = SdIdle
    /\ NoRequests

\* What no administrative routine touches.
AdminFrame ==
    UNCHANGED <<IN_MAINTENANCE, sd, dbExists, migrated, data, instance, cdbVars, reqVars>>

AdminRaises_autocommit ==
    /\ adm' = [adm EXCEPT !.pc = "idle", !.result = "raised"]
    /\ tables' = IF adm.op = "clone_db_schema"
                 THEN [tables EXCEPT ![adm.target] = @ \cup adm.created]
                 ELSE tables
    /\ UNCHANGED <<schemas, rows>>

\* An exception leaves the `with` block: the transaction is rolled back, what
\* it had created is undone, and the statement after the block (lines 141,
\* 169) is not reached.
AdminRaises ==
    /\ adm' = [adm EXCEPT !.pc = "idle", !.result = "raised", !.created = {},
                          !.undone = adm.created]
    /\ UNCHANGED <<schemas, tables, rows>>

\* Line 141 and line 169: sync_engine.dispose(), after the `with` block.
AdminReturns(a) == [a EXCEPT !.pc = "idle", !.result = "ok", !.engine = "disposed"]

\* Line 131: the engine is created; line 132 opens the transaction.
CsBegin(name) ==
    /\ adm.pc = "idle"
    /\ adm' = [AdmIdle EXCEPT !.pc = "check", !.op = "create_schema",
                              !.target = name, !.before = schemas,
                              !.engine = "created"]
    /\ UNCHANGED <<schemas, tables, rows>>
    /\ AdminFrame

HasSchema_never(a) == FALSE

\* Lines 133, 136: conn.dialect.has_schema, inside the transaction.
HasSchema(a) == a.target \in schemas \cup a.created

\* Lines 132-133: connecting or the existence check may raise, and does when
\* there is no database to connect to.
CsCheck ==
    /\ adm.pc = "check"
    /\ \/ AdminRaises
       \/ /\ dbExists
          /\ adm' = [adm EXCEPT !.pc = IF HasSchema(adm) THEN "commit" ELSE "execute"]
          /\ UNCHANGED <<schemas, tables, rows>>
    /\ AdminFrame

\* Line 135: conn.execute(CreateSchema(schema_name)).  The statement raises
\* for a schema that exists; otherwise it raises, takes effect or does not.
CsExecute ==
    /\ adm.pc = "execute"
    /\ \/ /\ adm' = [adm EXCEPT !.pc = "idle", !.result = "raised", !.created = {},
                                !.stmts = adm.stmts + 1]
          /\ UNCHANGED <<schemas, tables, rows>>
       \/ /\ adm.target \notin schemas
          /\ \E effect \in BOOLEAN :
                adm' = [adm EXCEPT !.pc = "recheck", !.stmts = adm.stmts + 1,
                                   !.created = IF effect THEN {adm.target} ELSE {}]
          /\ UNCHANGED <<schemas, tables, rows>>
    /\ AdminFrame

\* Lines 136-137: the second has_schema and logger.error.
CsRecheck ==
    /\ adm.pc = "recheck"
    /\ \/ AdminRaises
       \/ /\ adm' = [adm EXCEPT !.pc = "commit", !.error_logged = ~HasSchema(adm)]
          /\ UNCHANGED <<schemas, tables, rows>>
    /\ AdminFrame

\* Lines 132, 141: leaving the `with` block commits; then the engine is
\* disposed.
CsCommit ==
    /\ adm.pc = "commit"
    /\ adm.op = "create_schema"
    /\ \/ AdminRaises
       \/ /\ schemas' = schemas \cup adm.created
          /\ adm' = AdminReturns(adm)
          /\ UNCHANGED <<tables, rows>>
    /\ AdminFrame

\* The call repeats the one before it: same routine, same arguments, and that
\* one returned normally.
Repeats(source_schema_name, target_schema_name) ==
    /\ adm.op = "clone_db_schema"
    /\ adm.result = "ok"
    /\ adm.source = source_schema_name
    /\ adm.target = target_schema_name

\* Lines 154-155: the engine is created and the transaction opened.
CloneBegin(source_schema_name, target_schema_name) ==
    /\ adm.pc = "idle"
    /\ adm' = [AdmIdle EXCEPT !.pc = "enumerate", !.op = "clone_db_schema",
                              !.source = source_schema_name,
                              !.target = target_schema_name,
                              !.before = tables[target_schema_name],
                              !.engine = "created",
                              !.repeat = Repeats(source_schema_name, target_schema_name),
                              !.prev_created =
                                  IF Repeats(source_schema_name, target_schema_name)
                                  THEN adm.created ELSE {}]
    /\ UNCHANGED <<schemas, tables, rows>>
    /\ AdminFrame

\* Lines 159-160: the tables enumerated are those of the schema 'tenant',
\* whatever source_schema_name is.
schema_tables == tables[TENANT_SCHEMA_NAME]

CloneEnumerate ==
    /\ adm.pc = "enumerate"
    /\ \/ AdminRaises
       \/ /\ dbExists
          /\ adm' = [adm EXCEPT !.pc = "clone", !.todo = schema_tables]
          /\ UNCHANGED <<schemas, tables, rows>>
    /\ AdminFrame

TableExists_never(a, table_name) == FALSE

\* Line 165, "if not exists": the table is in the target, or was created
\* there earlier in this transaction.
TableExists(a, table_name) == table_name \in tables[a.target] \cup a.created

\* Lines 163-166: one "create table if not exists target.t (like source.t
\* including all)".  It raises when the target schema does not exist; an
\* existing target table is skipped; otherwise it raises unless the source
\* table exists.
CloneTable(table_name) ==
    /\ adm.pc = "clone"
    /\ table_name \in adm.todo
    /\ \/ AdminRaises
       \/ /\ adm.target \in schemas
          /\ TableExists(adm, table_name)
          /\ adm' = [adm EXCEPT !.todo = adm.todo \ {table_name},
                                !.stmts = adm.stmts + 1]
          /\ UNCHANGED <<schemas, tables, rows>>
       \/ /\ adm.target \in schemas
          /\ ~TableExists(adm, table_name)
          /\ table_name \in tables[adm.source]
          /\ adm' = [adm EXCEPT !.todo = adm.todo \ {table_name},
                                !.stmts = adm.stmts + 1,
                                !.created = adm.created \cup {table_name}]
          /\ UNCHANGED <<schemas, tables, rows>>
    /\ AdminFrame

ClonedRows_copied(a) == rows[a.target] \cup (a.created \cap rows[a.source])

\* Line 165, "like ... including all": the definition is copied, no row is.
ClonedRows(a) == rows[a.target]

\* Lines 155, 168-169: leaving the `with` block commits the tables created;
\* then the engine is disposed.
CloneCommit ==
    /\ adm.pc = "clone"
    /\ adm.todo = {}
    /\ \/ AdminRaises
       \/ /\ tables' = [tables EXCEPT ![adm.target] = tables[adm.target] \cup adm.created]
          /\ rows' = [rows EXCEPT ![adm.target] = ClonedRows(adm)]
          /\ adm' = AdminReturns(adm)
          /\ UNCHANGED schemas
    /\ AdminFrame

NextAdmin ==
    \/ \E name \in AdminSchemas : CsBegin(name)
    \/ CsCheck
    \/ CsExecute
    \/ CsRecheck
    \/ CsCommit
    \/ \E s \in AdminSchemas, tg \in AdminSchemas : CloneBegin(s, tg)
    \/ CloneEnumerate
    \/ \E table_name \in TableNames : CloneTable(table_name)
    \/ CloneCommit

SpecAdmin == InitAdmin /\ [][NextAdmin]_vars

-----------------------------------------------------------------------------
(* Several requests in flight, each for a tenant, in a process that has
   started: the database is provisioned and get() has stored the instance *)

\* One request more than Requests, so that two are in flight at least.
ConcurrentRequests == 1..(NumRequests + 1)

InitConcurrent ==
    /\ IN_MAINTENANCE = FALSE
    /\ dbExists = TRUE
    /\ schemas = {SHARED_SCHEMA_NAME, TENANT_SCHEMA_NAME}
    /\ migrated = TRUE
    /\ data = EmptyData
    /\ instance = TRUE
    /\ cdb_pc = "idle"
    /\ cdb_caller = NoCaller
    /\ cdb_log = <<"create_database", "schema_shared", "schema_tenant", "run_migrations">>
    /\ cdb_result = "ok"
    /\ cdb_errors = {}
    /\ init_calls = "once"
    /\ adm = AdmIdle
    /\ sd = SdIdle
    /\ tables = NoTables
    /\ rows = NoTables
    /\ pc = [r \in ConcurrentRequests |-> "idle"]
    /\ schema_name = [r \in ConcurrentRequests |-> None]
    /\ session = [r \in ConcurrentRequests |-> "none"]
    /\ ctx = [r \in ConcurrentRequests |-> {}]
    /\ writes = [r \in ConcurrentRequests |-> NoWrites]
    /\ exc = [r \in ConcurrentRequests |-> <<>>]
    /\ result = [r \in ConcurrentRequests |-> "none"]
    /\ log = [r \in ConcurrentRequests |-> <<>>]

NextConcurrent ==
    \/ \E r \in ConcurrentRequests, s \in TenantNames : AsyncSessionEnter(r, s)
    \/ \E r \in ConcurrentRequests : Connection(r)
    \/ \E r \in ConcurrentRequests, i \in Items : UowSave(r, i)
    \/ \E r \in ConcurrentRequests, i \in Items : UowDelete(r, i)
    \/ \E r \in ConcurrentRequests : UowReturn(r)
    \/ \E r \in ConcurrentRequests, e \in UowErrors : UowRaise(r, e)
    \/ \E r \in ConcurrentRequests : Commit(r)
    \/ \E r \in ConcurrentRequests : Rollback(r)
    \/ \E r \in ConcurrentRequests : Close(r)
    \/ \E r \in ConcurrentRequests : Finished(r)

SpecConcurrent == InitConcurrent /\ [][NextConcurrent]_vars

-----------------------------------------------------------------------------
(* shutdown, called when the process stops serving: from its first step on
   no request and no create_db takes a step *)

ShutdownEnter_via_get ==
    /\ cdb_pc = "idle"
    /\ sd.pc = "idle"
    /\ IF HasInstance
       THEN /\ sd' = [SdIdle EXCEPT !.pc = "close_all"]
            /\ UNCHANGED cdbVars
       ELSE /\ sd' = [SdIdle EXCEPT !.result = "ok"]
            /\ CreateDbEnter(GetCaller)
    /\ UNCHANGED <<IN_MAINTENANCE, adm, tables, rows, envVars, instance, reqVars>>

\* Line 184: with no instance shutdown is over at once; it does not call
\* get().  Line 185: __init__ has set the session maker of an instance.
ShutdownEnter ==
    /\ cdb_pc = "idle"
    /\ sd.pc = "idle"
    /\ sd' = IF HasInstance
             THEN [SdIdle EXCEPT !.pc = "close_all"]
             ELSE [SdIdle EXCEPT !.result = "ok"]
    /\ UNCHANGED <<IN_MAINTENANCE, adm, tables, rows, envVars, instance, cdbVars, reqVars>>

\* The sessions close_all finds open.
OpenSessions(dom) == {r \in dom : session[r] \notin {"none", "closed"}}

\* Lines 186-187: await _async_session_maker.close_all() closes the sessions
\* that are open and returns, or raises, having closed them or not; the check
\* of line 187 holds for every instance.
ShutdownCloseAll ==
    /\ sd.pc = "close_all"
    /\ \E ok \in BOOLEAN, done \in BOOLEAN :
          /\ ok => done
          /\ sd' = [sd EXCEPT !.pc = IF ok THEN "dispose" ELSE "idle",
                              !.log = Append(@, "close_all"),
                              !.result = IF ok THEN @ ELSE "raised",
                              !.closed = IF done THEN OpenSessions(DOMAIN session) ELSE {}]
          /\ session' = [r \in DOMAIN session |->
                           IF done /\ r \in OpenSessions(DOMAIN session)
                           THEN "closed" ELSE session[r]]
    /\ UNCHANGED <<IN_MAINTENANCE, adm, tables, rows, envVars, instance, cdbVars,
                   pc, schema_name, ctx, writes, exc, result, log>>

\* Line 188: await _async_engine.dispose() returns or raises.
ShutdownDispose ==
    /\ sd.pc = "dispose"
    /\ \E ok \in BOOLEAN :
          sd' = [sd EXCEPT !.pc = "idle",
                           !.log = Append(@, "dispose"),
                           !.result = IF ok THEN "ok" ELSE "raised"]
    /\ UNCHANGED <<IN_MAINTENANCE, adm, tables, rows, envVars, instance, cdbVars, reqVars>>

\* The process serves requests until shutdown is first called.
Serving ==
    /\ sd = SdIdle
    /\ \/ Get
       \/ CreateDbProbe
       \/ CreateDatabase
       \/ CreateSharedSchema
       \/ CreateTenantSchema
       \/ RunMigrations
       \/ CreateDbRecheck
       \/ \E r \in Requests, s \in TenantNames : AsyncSessionEnter(r, s)
       \/ \E r \in Requests : Connection(r)
       \/ \E r \in Requests, i \in Items : UowSave(r, i)
       \/ \E r \in Requests, i \in Items : UowDelete(r, i)
       \/ \E r \in Requests : UowReturn(r)
       \/ \E r \in Requests, e \in UowErrors : UowRaise(r, e)
       \/ \E r \in Requests : Commit(r)
       \/ \E r \in Requests : Rollback(r)
       \/ \E r \in Requests : Close(r)
       \/ \E r \in Requests : Finished(r)

NextShutdown ==
    \/ Serving
    \/ ShutdownEnter
    \/ ShutdownCloseAll
    \/ ShutdownDispose

SpecShutdown == Init /\ [][NextShutdown]_vars

-----------------------------------------------------------------------------
(* Properties *)

Range(seq) == {seq[k] : k \in 1..Len(seq)}

Count(seq, x) == Cardinality({k \in 1..Len(seq) : seq[k] = x})

\* The position of the first x in seq, 0 when there is none.
Pos(seq, x) ==
    IF x \in Range(seq) THEN CHOOSE k \in 1..Len(seq) : seq[k] = x /\ \A j \in 1..(k - 1) : seq[j] # x
    ELSE 0

IsPrefix(s, t) == Len(s) <= Len(t) /\ \A k \in 1..Len(s) : s[k] = t[k]

\* The invocation of r has ended and its unit of work had raised.
EndedAfterUowRaised(r) == pc[r] = "done" /\ "uow_raised" \in Range(log[r])

\* C1: with the maintenance flag set, every entry into async_session, for any
\* schema name, ends at once with the 503 failure and touches nothing: the
\* instance, create_db, the database, every session, every bound context,
\* every log of session calls and every unit of work are as before.
C1_MaintenanceRejectsBeforeAnyResource ==
    [][\A r \in Requests :
         (IN_MAINTENANCE /\ pc[r] = "idle" /\ pc'[r] # "idle") =>
            /\ pc'[r] = "done"
            /\ result'[r] = "HTTP_503"
            /\ UNCHANGED <<instance, cdbVars, envVars, session, ctx, writes, log>>]_vars

C1_Witness ==
    \E r \in Requests :
       /\ IN_MAINTENANCE
       /\ pc[r] = "done"
       /\ result[r] = "HTTP_503"
       /\ schema_name[r] \in TenantNames
       /\ session[r] = "none"

\* C2 (as claimed): whenever the unit of work raised, the session was rolled
\* back, then closed, and the caller observes the very failure the unit of
\* work raised.
C2_UowFailurePropagatesUnchanged ==
    \A r \in Requests :
       EndedAfterUowRaised(r) =>
          /\ log[r] = <<"connection", "uow_raised", "rollback", "close">>
          /\ result[r] = exc[r][1]
          /\ result[r] \in UowErrors

\* C3: when the unit of work returned normally, commit is issued after the
\* return and before close; once the session is closed, a commit was issued
\* earlier.
C3_CommitBeforeClose ==
    \A r \in Requests :
       ("uow_returned" \in Range(log[r]) /\ "close" \in Range(log[r])) =>
          /\ Count(log[r], "commit") = 1
          /\ Pos(log[r], "uow_returned") < Pos(log[r], "commit")
          /\ Pos(log[r], "commit") < Pos(log[r], "close")

C3_Witness ==
    \E r \in Requests :
       /\ pc[r] = "done"
       /\ result[r] = "ok"
       /\ log[r] = <<"connection", "uow_returned", "commit", "close">>

\* C4 (as claimed): every invocation that was not rejected for maintenance
\* and got its session has issued, when it ends, exactly one commit or exactly
\* one rollback, never both and never neither.
C4_ExactlyOneCommitOrRollback ==
    \A r \in Requests :
       (pc[r] = "done" /\ result[r] # "HTTP_503" /\ session[r] # "none") =>
          Count(log[r], "commit") + Count(log[r], "rollback") = 1

\* C4 (amended): an ended invocation whose unit of work returned issued
\* exactly one commit, followed by exactly one rollback if and only if that
\* commit raised; one whose unit of work raised issued exactly one rollback
\* and no commit; one that failed before its unit of work started (create_db
\* or session.connection raised) issued neither.
C4_CommitRollbackPerPath ==
    \A r \in Requests :
       pc[r] = "done" =>
          /\ "uow_returned" \in Range(log[r]) =>
                /\ Count(log[r], "commit") = 1
                /\ Count(log[r], "rollback") = (IF "E_commit" \in Range(exc[r]) THEN 1 ELSE 0)
                /\ Count(log[r], "rollback") = 1 => Pos(log[r], "commit") < Pos(log[r], "rollback")
          /\ "uow_raised" \in Range(log[r]) =>
                /\ Count(log[r], "commit") = 0
                /\ Count(log[r], "rollback") = 1
          /\ Range(log[r]) \cap {"uow_returned", "uow_raised"} = {} =>
                /\ Count(log[r], "commit") = 0
                /\ Count(log[r], "rollback") = 0

C4_Witness ==
    \E r \in Requests :
       /\ pc[r] = "done"
       /\ result[r] = "E_commit"
       /\ log[r] = <<"connection", "uow_returned", "commit", "rollback", "close">>

\* C5 (as claimed): when an invocation has ended, the session it created has
\* been closed, exactly once.
C5_SessionClosedOnEveryExit ==
    \A r \in Requests :
       pc[r] = "done" =>
          /\ session[r] \in {"none", "closed"}
          /\ session[r] = "closed" => Count(log[r], "close") = 1

\* C6: no step of an invocation whose unit of work raises (the writes of the
\* unit of work, its raising, the rollback, the close) changes the committed
\* rows of any schema, whether the rollback succeeds or raises, and when the
\* invocation ends its session is closed.
C6_RaisedUowLeavesDataUnchanged ==
    [][\A r \in Requests :
         (/\ <<pc[r], writes[r]>> # <<pc'[r], writes'[r]>>
          /\ \/ pc[r] \in {"connect", "uow"} /\ pc'[r] # "commit"
             \/ "uow_raised" \in Range(log[r]))
         => /\ data' = data
            /\ pc'[r] = "done" /\ "uow_raised" \in Range(log[r]) => session'[r] = "closed"]_vars

C6_Witness ==
    \E r \in Requests :
       /\ EndedAfterUowRaised(r)
       /\ writes[r].add # {}
       /\ writes[r].add \cap data[schema_name[r]] = {}
       /\ session[r] = "closed"

C8_SchemaContext ==
    \A r \in Requests :
       session[r] \in {"connected", "committed", "rolled_back", "closed"} =>
          IF schema_name[r] = SHARED_SCHEMA_NAME
          THEN /\ <<"tenant", None>> \in ctx[r]
               /\ \A e \in ctx[r] : e[1] = "tenant" /\ e[2] = None
          ELSE /\ <<"tenant", schema_name[r]>> \in ctx[r]
               /\ <<"shared", None>> \in ctx[r]
               /\ Cardinality(ctx[r]) = 2

C8_Witness ==
    \E r \in Requests :
       /\ schema_name[r] = "tenant_b"
       /\ ctx[r] = {<<"tenant", "tenant_b">>, <<"shared", None>>}

FullCreation == <<"create_database", "schema_shared", "schema_tenant", "run_migrations">>

\* C9: a create_db that returns normally leaves the database existing, and a
\* create_db that finds the database existing returns normally leaving the
\* database, the schemas, the migrations and the rows as they were, having
\* issued no creation step; so a second call in sequence changes nothing.
C9_CreateDbIdempotent ==
    [][/\ (cdb_pc # "idle" /\ cdb_pc' = "idle" /\ cdb_result' = "ok") => dbExists'
       /\ (cdb_pc = "probe" /\ cdb_pc' # "probe" /\ dbExists) =>
             /\ cdb_pc' = "idle"
             /\ cdb_result' = "ok"
             /\ cdb_log' = <<>>
             /\ UNCHANGED envVars]_vars

C9_Witness ==
    /\ cdb_pc = "idle"
    /\ cdb_result = "ok"
    /\ cdb_log = <<>>
    /\ dbExists
    /\ migrated
    /\ schemas = {SHARED_SCHEMA_NAME, TENANT_SCHEMA_NAME}

\* C10: the creation branch of create_db issues its steps in the order create
\* database, shared schema, tenant template schema, migrations; when create_db
\* returns normally from that branch all four were issued and the database
\* exists.
C10_CreationOrder ==
    [][/\ IsPrefix(cdb_log', FullCreation)
       /\ (cdb_pc = "recheck" /\ cdb_result' = "ok") =>
             /\ cdb_log' = FullCreation
             /\ dbExists']_vars

C10_Witness ==
    /\ cdb_pc = "idle"
    /\ cdb_result = "ok"
    /\ cdb_log = FullCreation
    /\ dbExists

\* C11: when the probe that follows the migrations finds no database,
\* create_db raises instead of returning: no instance is constructed by that
\* call, and an async_session invocation that ran it ends with the failure
\* of create_db, without a session, a connection or a unit of work.
C11_CreateDbFatalWhenStillAbsent ==
    [][(cdb_pc = "recheck" /\ cdb_pc' # "recheck" /\ ~dbExists) =>
          /\ cdb_pc' = "idle"
          /\ cdb_result' = "raised"
          /\ instance' = instance
          /\ \A r \in Requests :
                cdb_caller = RequestCaller(r) =>
                   /\ pc'[r] = "done"
                   /\ result'[r] = "E_create_db"
                   /\ session'[r] = "none"
                   /\ log'[r] = <<>>]_vars

C11_Witness ==
    \E r \in Requests :
       /\ pc[r] = "done"
       /\ result[r] = "E_create_db"
       /\ cdb_result = "raised"
       /\ cdb_log = FullCreation
       /\ ~instance
       /\ session[r] = "none"

\* The step of create_db that creates the schema called name.
SchemaStep(name) == IF name = SHARED_SCHEMA_NAME THEN "schema_shared" ELSE "schema_tenant"

\* C17: when create_schema has logged that a schema could not be created,
\* create_db has gone on: it is past that step, it never ends at that step,
\* and once it has ended after such an error for the tenant template schema
\* (its last schema) the migrations have been run.
C17_SchemaCreationFailureNotFatal ==
    \A name \in cdb_errors :
       /\ SchemaStep(name) \in Range(cdb_log)
       /\ cdb_pc # SchemaStep(name)
       /\ cdb_pc = "idle" => cdb_log[Len(cdb_log)] # SchemaStep(name)
       /\ (cdb_pc = "idle" /\ name = TENANT_SCHEMA_NAME) => "run_migrations" \in Range(cdb_log)

C17_Witness ==
    /\ cdb_pc = "idle"
    /\ cdb_result = "ok"
    /\ cdb_errors = {SHARED_SCHEMA_NAME, TENANT_SCHEMA_NAME}
    /\ schemas = {}
    /\ cdb_log = FullCreation
    /\ migrated

\* C18: across any sequence of get and async_session calls, __init__ calls
\* create_db at most once in the life of the process.
C18_CreateDbInvokedAtMostOnce == init_calls \in {"never", "once"}

\* A step by which clone_db_schema returns normally.
CloneReturns ==
    /\ adm.op = "clone_db_schema"
    /\ adm.pc = "clone"
    /\ adm'.pc = "idle"
    /\ adm'.result = "ok"

\* C12: a clone_db_schema that returns has created in the target exactly the
\* tables of the template schema that were missing there, whatever tables the
\* target had; the tables already present and their rows are as they were,
\* no other schema's tables change, and a call that repeats the one before
\* it changes nothing.
C12_CloneCreatesExactlyMissing ==
    [][CloneReturns =>
          /\ adm.created = tables[TENANT_SCHEMA_NAME] \ adm.before
          /\ tables'[adm.target] = adm.before \cup tables[TENANT_SCHEMA_NAME]
          /\ rows'[adm.target] \cap adm.before = rows[adm.target]
          /\ \A s \in AdminSchemas \ {adm.target} : tables'[s] = tables[s]
          /\ adm.repeat => (tables' = tables /\ rows' = rows)]_vars

C12_Witness ==
    /\ adm.op = "clone_db_schema"
    /\ adm.pc = "idle"
    /\ adm.result = "ok"
    /\ adm.repeat
    /\ adm.target # TENANT_SCHEMA_NAME
    /\ adm.prev_created # {}
    /\ adm.before # adm.prev_created
    /\ adm.created = {}
    /\ tables[adm.target] = tables[TENANT_SCHEMA_NAME]

\* C13: after clone_db_schema(source, target) has returned normally for an
\* existing target, every table of the source schema exists in the target
\* and every table the call created is a table of the source.
C13_ClonesFromSource ==
    (/\ adm.op = "clone_db_schema"
     /\ adm.pc = "idle"
     /\ adm.result = "ok"
     /\ adm.target \in schemas) =>
        /\ tables[adm.source] \subseteq tables[adm.target]
        /\ adm.created \subseteq tables[adm.source]

\* A step of the clone_db_schema call in progress, its first included.
CloneStep == adm'.op = "clone_db_schema" /\ adm' # adm

\* C14: no step of clone_db_schema changes the set of schemas, the rows of
\* any table, or the tables of a schema other than the target; the target
\* keeps the tables it had, so the tables created hold no rows and the source
\* is as it was.
C14_CloneCopiesStructureOnly ==
    [][CloneStep =>
          /\ schemas' = schemas
          /\ rows' = rows
          /\ adm'.created \cap rows'[adm'.target] = {}
          /\ tables[adm'.target] \subseteq tables'[adm'.target]
          /\ \A s \in AdminSchemas \ {adm'.target} : tables'[s] = tables[s]]_vars

C14_Witness ==
    /\ adm.op = "clone_db_schema"
    /\ adm.pc = "idle"
    /\ adm.result = "ok"
    /\ adm.source # adm.target
    /\ adm.created # {}
    /\ adm.created \subseteq rows[adm.source]
    /\ adm.before # {}
    /\ rows[adm.target] = adm.before

\* A step of the create_schema call in progress, after its first.
CsStep == adm.op = "create_schema" /\ adm.pc # "idle" /\ adm' # adm

\* C15: create_schema issues at most one create statement, and only for a
\* schema that did not exist; when it returns normally it has issued one if
\* the schema did not exist and none if it did; for a schema that exists it
\* issues none and changes nothing; no step of create_schema or
\* clone_db_schema removes a schema.
C15_CreateSchemaIdempotent ==
    [][/\ schemas \subseteq schemas'
       /\ CsStep =>
             /\ adm'.stmts <= 1
             /\ adm'.stmts > adm.stmts => adm.target \notin adm.before
             /\ (adm'.pc = "idle" /\ adm'.result = "ok") =>
                   adm'.stmts = IF adm.target \in adm.before THEN 0 ELSE 1
             /\ adm.target \in adm.before => (adm'.stmts = 0 /\ schemas' = schemas)]_vars

C15_Witness ==
    /\ adm.op = "create_schema"
    /\ adm.pc = "idle"
    /\ adm.result = "ok"
    /\ adm.target \in adm.before
    /\ adm.stmts = 0
    /\ ~adm.error_logged
    /\ schemas = adm.before

\* C16: when create_schema or clone_db_schema is over, by return or by
\* exception, the engine it created has been disposed.
C16_EngineDisposedOnEveryExit ==
    adm.pc = "idle" => adm.engine \in {"none", "disposed"}

\* The session of r is bound: its unit of work has started or is over and
\* the session is not yet released.
Bound(s) == s \in {"connected", "committed", "rolled_back"}

\* C19: with several sessions for tenants in flight, a bound session's
\* context is the one computed from its own schema_name and translates the
\* tenant tables to that schema; no step, of any request, changes the context
\* or the schema_name of a session that stays bound; and the step that ends
\* a commit changes the rows of no schema but that session's own.
C19_SessionKeepsOwnContext ==
    [][\A r \in ConcurrentRequests :
          /\ Bound(session'[r]) =>
                /\ ctx'[r] = get_schema_context(schema_name'[r])
                /\ \A e \in ctx'[r] : e[1] = "tenant" => e[2] = schema_name'[r]
          /\ (Bound(session[r]) /\ Bound(session'[r])) =>
                (ctx'[r] = ctx[r] /\ schema_name'[r] = schema_name[r])
          /\ (pc[r] = "commit" /\ pc'[r] # "commit") =>
                \A s \in SchemaArgs \ {schema_name[r]} : data'[s] = data[s]]_vars

C19_Witness ==
    \E r1 \in ConcurrentRequests, r2 \in ConcurrentRequests :
       /\ schema_name[r1] = "tenant_a"
       /\ schema_name[r2] = "tenant_b"
       /\ session[r1] = "committed"
       /\ log[r1] = <<"connection", "uow_returned", "commit">>
       /\ pc[r2] = "uow"
       /\ session[r2] = "connected"
       /\ writes[r2].add # {}
       /\ data["tenant_a"] # {}
       /\ data["tenant_b"] = {}

\* C20: an async_session whose commit raised has issued connection, the
\* unit of work, commit, rollback and close in that order, the caller
\* receives the commit's failure, and the rows are those of before.
C20_CommitFailurePropagates ==
    \A r \in Requests :
       (pc[r] = "done" /\ "E_commit" \in Range(exc[r])) =>
          /\ log[r] = <<"connection", "uow_returned", "commit", "rollback", "close">>
          /\ result[r] = "E_commit"

\* C21: whenever create_db returns normally, whatever create_db runs came
\* before, the database exists, the shared schema and the tenant template
\* schema exist, and the migrations have been run.
C21_CreateDbLeavesProvisioned ==
    [][(cdb_pc # "idle" /\ cdb_pc' = "idle" /\ cdb_result' = "ok") =>
          /\ dbExists'
          /\ {SHARED_SCHEMA_NAME, TENANT_SCHEMA_NAME} \subseteq schemas'
          /\ migrated']_vars

\* A step by which clone_db_schema raises.
CloneFails ==
    /\ adm.op = "clone_db_schema"
    /\ adm.pc # "idle"
    /\ adm'.pc = "idle"
    /\ adm'.result = "raised"

\* C22: a clone_db_schema that raises leaves the tables of every schema, the
\* target's included, as they were when it began, with nothing it created
\* left; and the tables change at no step of clone_db_schema other than the
\* one by which it returns normally.
C22_CloneAllOrNothing ==
    [][/\ CloneFails =>
             /\ tables' = tables
             /\ tables'[adm.target] = adm.before
             /\ rows' = rows
             /\ adm'.created = {}
       /\ (adm.op = "clone_db_schema" /\ adm.pc # "idle" /\ tables' # tables) =>
             CloneReturns]_vars

C22_Witness ==
    /\ adm.op = "clone_db_schema"
    /\ adm.pc = "idle"
    /\ adm.result = "raised"
    /\ adm.undone # {}
    /\ adm.stmts = Cardinality(adm.undone)
    /\ adm.target \in schemas
    /\ tables[adm.target] = adm.before
    /\ adm.undone \cap tables[adm.target] = {}

\* C23: no step of shutdown changes whether there is an instance, enters
\* create_db or changes the database; with no instance shutdown ends at
\* once having closed and disposed nothing; with an instance the engine is
\* disposed only after close_all, and by then every session is closed.
C23_ShutdownOnlyReleases ==
    [][sd' # sd =>
          /\ instance' = instance
          /\ UNCHANGED <<cdbVars, envVars>>
          /\ ~instance => (sd'.pc = "idle" /\ sd'.log = <<>> /\ session' = session)
          /\ sd'.log # <<>> => (instance /\ sd'.log[1] = "close_all")
          /\ "dispose" \in Range(sd'.log) => sd'.log = <<"close_all", "dispose">>
          /\ (sd'.pc = "dispose" \/ "dispose" \in Range(sd'.log)) =>
                \A r \in DOMAIN session : session'[r] \in {"none", "closed"}]_vars

C23_Witness ==
    /\ instance
    /\ sd.pc = "idle"
    /\ sd.result = "ok"
    /\ sd.log = <<"close_all", "dispose">>
    /\ sd.closed # {}
    /\ \A r \in sd.closed : session[r] = "closed" /\ pc[r] \notin {"idle", "done"}

=============================================================================
